---- MODULE Spec2Model ----
(***************************************************************************)
(* HeartRateMonitor of src/main.py: a sliding window of raw PPG samples,   *)
(* a trailing moving-average filter, a peak detector with a dynamic        *)
(* threshold and the conversion of peak intervals to beats per minute.     *)
(*                                                                         *)
(* Arithmetic.  The code divides (sum / smoothing_window, * 0.5,           *)
(* 60000 / average_interval).  The model keeps these quotients exact:      *)
(*   - a filtered value is stored as its numerator over the common         *)
(*     denominator smoothing_window (a warm-up value `sample` is stored    *)
(*     as sample * smoothing_window, a smoothed one as the sum itself);    *)
(*   - the threshold test x > min + (max - min) * 0.5 is decided as        *)
(*     2 * x > min + max on those numerators;                              *)
(*   - a heart rate is the fraction num / den, and a division by zero is   *)
(*     the ZeroDivisionError the interpreter raises.                       *)
(***************************************************************************)
EXTENDS Integers, Sequences, FiniteSets

VARIABLES
    window_size,       \* self.window_size
    smoothing_window,  \* self.smoothing_window
    samples,           \* self.samples
    timestamps,        \* self.timestamps
    filtered_samples,  \* self.filtered_samples (numerators over smoothing_window)
    now,               \* the millisecond counter that ticks_ms() reads
    recent,            \* history: the last smoothing_window raw values ever appended
    filtered_at,       \* history: for each entry of filtered_samples, the tick of
                       \* the add_sample call that produced it
    trend,             \* the shape of the input the caller feeds
    last_op,           \* the method that returned last
    peaks_ret,         \* what the last find_peaks returned
    hr_ret,            \* what the last calculate_heart_rate returned
    pc,                \* the statement an add_sample in progress is at
    local_sample,      \* add_sample's parameter `sample`
    local_timestamp,   \* add_sample's local `timestamp`
    atomic,            \* whether the embedding makes the operations exclude each other
    seen_lens,         \* the lengths of the three lists at the last find_peaks,
                       \* until the writer's next statement
    loop               \* main(): where it is, its sensor, ref_time and its reports

window == <<samples, timestamps, filtered_samples>>
config == <<window_size, smoothing_window, trend, atomic>>
task == <<pc, local_sample, local_timestamp, seen_lens>>
vars == <<window_size, smoothing_window, samples, timestamps, filtered_samples,
          now, recent, filtered_at, trend, last_op, peaks_ret, hr_ret,
          pc, local_sample, local_timestamp, atomic, seen_lens, loop>>

(***************************************************************************)
(* Bounds of the model.                                                    *)
(***************************************************************************)
MaxW == 5      \* window sizes 1..MaxW
MaxK == 3      \* smoothing windows 1..MaxK
MaxVal == 1    \* raw samples 0..MaxVal
MaxDt == 1     \* milliseconds between two add_sample calls, 0..MaxDt
MaxTime == 1   \* the clock is followed up to this tick
WrapLead == 1  \* the clock starts this many ticks before it wraps around
WrapTail == 0  \* and is followed up to this tick after the wraparound
MonoMaxVal == 4  \* raw samples 0..MonoMaxVal of the monotonic inputs
ConcMaxW == 2  \* window sizes 1..ConcMaxW of the two-task embedding

(***************************************************************************)
(* Program constants.                                                      *)
(***************************************************************************)
DefaultWindowSize == 10
DefaultSmoothingWindow == 5
MsPerMinute == 60000
\* utime's tick counter wraps modulo a power of two (2^30 on the ports
\* that run this program).
TicksPeriod == 1073741824

(***************************************************************************)
(* Helpers for Python's list operations.                                   *)
(***************************************************************************)
RECURSIVE sum(_)
sum(s) == IF s = <<>> THEN 0 ELSE Head(s) + sum(Tail(s))

Max2(a, b) == IF a >= b THEN a ELSE b

\* s[-n:] : the last n elements, the whole list when n >= len(s) or n = 0
LastN(s, n) ==
    IF n = 0 THEN s ELSE SubSeq(s, Max2(1, Len(s) - n + 1), Len(s))

\* a pop() that removes the newest element instead of the oldest
pop_last(s) == SubSeq(s, 1, Len(s) - 1)

\* s.pop(0) leaves the list without its first element
pop0(s) == Tail(s)

min(s) == CHOOSE x \in {s[i] : i \in DOMAIN s} : \A j \in DOMAIN s : x <= s[j]
max(s) == CHOOSE x \in {s[i] : i \in DOMAIN s} : \A j \in DOMAIN s : x >= s[j]

\* the subsequence of s at the indices of I, in increasing index order
RECURSIVE SelectIdx(_, _, _)
SelectIdx(s, I, i) ==
    IF i > Len(s) THEN <<>>
    ELSE IF i \in I THEN <<s[i]>> \o SelectIdx(s, I, i + 1)
    ELSE SelectIdx(s, I, i + 1)

(***************************************************************************)
(* utime.                                                                  *)
(***************************************************************************)
\* ticks_ms() after dt more milliseconds
ticks_ms(t, dt) == (t + dt) % TicksPeriod

\* a difference that ignores the wraparound
plain_diff(a, b) == a - b

\* the signed difference of two tick values, in [-TicksPeriod/2, TicksPeriod/2)
ticks_diff(a, b) ==
    ((a - b + TicksPeriod \div 2) % TicksPeriod) - TicksPeriod \div 2

(***************************************************************************)
(* add_sample.                                                             *)
(***************************************************************************)
\* a filter that leaves warm-up one sample early
smoothing_ready_early(s, k) == Len(s) >= k - 1

\* line 23: the filter smooths once the retained list holds smoothing_window values
smoothing_ready(s, k) == Len(s) >= k

\* lines 23-27: the value appended to filtered_samples (numerator over k);
\* s is self.samples after the append of line 19
smoothed_sample(s, k, sample) ==
    IF smoothing_ready(s, k) THEN sum(LastN(s, k)) ELSE sample * k

\* a buffer that lets one entry too many in
overflows_late(s, w) == Len(s) > w + 1

\* a buffer that never evicts
overflows_never(s, w) == FALSE

\* line 30: the buffer overflows
overflows(s, w) == Len(s) > w

\* lines 30-33 on one of the three lists; s is self.samples
evict(s, w, list) == IF overflows(s, w) THEN pop0(list) ELSE list

\* no rate returned (yet)
NoRate == [kind |-> "unset", num |-> 0, den |-> 1]

add_sample(sample, dt) ==
    LET timestamp == ticks_ms(now, dt)
        s1 == Append(samples, sample)
        t1 == Append(timestamps, timestamp)
        f1 == Append(filtered_samples, smoothed_sample(s1, smoothing_window, sample))
    IN  /\ now' = timestamp
        /\ samples' = evict(s1, window_size, s1)
        /\ timestamps' = evict(s1, window_size, t1)
        /\ filtered_samples' = evict(s1, window_size, f1)
        /\ recent' = LastN(Append(recent, sample), smoothing_window)
        /\ filtered_at' = evict(s1, window_size, Append(filtered_at, timestamp))
        /\ last_op' = "add_sample"
        /\ peaks_ret' = <<>>
        /\ hr_ret' = NoRate
        /\ UNCHANGED <<config, task>>

(***************************************************************************)
(* find_peaks.                                                             *)
(***************************************************************************)
\* line 45, doubled: 2 * threshold = min + max
threshold2(f, w) == LET recent_samples == LastN(f, w)
                    IN  min(recent_samples) + max(recent_samples)

\* a detector that takes the end of a plateau for a peak
is_peak_plateau(f, w, i) ==
    /\ 2 * f[i] > threshold2(f, w)
    /\ f[i - 1] <= f[i]
    /\ f[i] > f[i + 1]

\* a detector whose three comparisons all admit equality
is_peak_nonstrict(f, w, i) ==
    /\ 2 * f[i] >= threshold2(f, w)
    /\ f[i - 1] <= f[i]
    /\ f[i] >= f[i + 1]

\* lines 49-53
is_peak(f, w, i) ==
    /\ 2 * f[i] > threshold2(f, w)
    /\ f[i - 1] < f[i]
    /\ f[i] > f[i + 1]

\* a scan over range(len - 1): index 0 is tested too, against the last
\* value (f[-1]) and the second
find_peaks_from_zero(f, ts, w) ==
    IF Len(f) < 3 THEN <<>>
    ELSE LET first == IF /\ 2 * f[1] > threshold2(f, w)
                         /\ f[Len(f)] < f[1]
                         /\ f[1] > f[2]
                      THEN {1} ELSE {}
             I == first \cup {i \in 2..(Len(f) - 1) : is_peak(f, w, i)}
         IN  SelectIdx([i \in 1..Len(f) |-> IF i \in I THEN <<ts[i], f[i]>> ELSE <<>>], I, 1)

\* lines 37-57: the list of (peak_time, value) pairs
find_peaks(f, ts, w) ==
    IF Len(f) < 3 THEN <<>>
    ELSE LET I == {i \in 2..(Len(f) - 1) : is_peak(f, w, i)}
         IN  SelectIdx([i \in 1..Len(f) |-> IF i \in I THEN <<ts[i], f[i]>> ELSE <<>>], I, 1)

\* a detector that consumes the oldest entry it scanned
FindPeaksDraining ==
    /\ last_op' = "find_peaks"
    /\ peaks_ret' = find_peaks(filtered_samples, timestamps, window_size)
    /\ hr_ret' = NoRate
    /\ samples' = IF samples = <<>> THEN samples ELSE pop0(samples)
    /\ timestamps' = IF timestamps = <<>> THEN timestamps ELSE pop0(timestamps)
    /\ filtered_samples' =
           IF filtered_samples = <<>> THEN filtered_samples ELSE pop0(filtered_samples)
    /\ UNCHANGED <<loop, config, task, now, recent, filtered_at>>

FindPeaks ==
    /\ last_op' = "find_peaks"
    /\ peaks_ret' = find_peaks(filtered_samples, timestamps, window_size)
    /\ hr_ret' = NoRate
    /\ UNCHANGED <<loop, config, task, window, now, recent, filtered_at>>

(***************************************************************************)
(* calculate_heart_rate.                                                   *)
(***************************************************************************)
\* a rate computed from a single peak
too_few_peaks_one(peaks) == Len(peaks) < 1

\* line 63
too_few_peaks(peaks) == Len(peaks) < 2

\* intervals taken from each peak back to the next one
intervals_backwards(peaks) ==
    [i \in 1..(Len(peaks) - 1) |-> ticks_diff(peaks[i][1], peaks[i + 1][1])]

\* lines 67-70
intervals_of(peaks) ==
    [i \in 1..(Len(peaks) - 1) |-> ticks_diff(peaks[i + 1][1], peaks[i][1])]

\* lines 72-76: 60000 / (sum(intervals) / len(intervals))
heart_rate_of(intervals) ==
    IF sum(intervals) = 0
    THEN [kind |-> "ZeroDivisionError", num |-> 0, den |-> 1]
    ELSE [kind |-> "num", num |-> MsPerMinute * Len(intervals), den |-> sum(intervals)]

calculate_heart_rate(peaks) ==
    IF too_few_peaks(peaks)
    THEN [kind |-> "None", num |-> 0, den |-> 1]
    ELSE heart_rate_of(intervals_of(peaks))

CalculateHeartRate ==
    /\ last_op' = "calculate_heart_rate"
    /\ peaks_ret' = <<>>
    /\ hr_ret' = calculate_heart_rate(
                    find_peaks(filtered_samples, timestamps, window_size))
    /\ UNCHANGED <<loop, config, task, window, now, recent, filtered_at>>

(***************************************************************************)
(* The monitor driven by any caller.                                       *)
(***************************************************************************)
\* (window_size, smoothing_window): the window and the filter's history before
\* it hold at most MaxW + 1 raw values together
Configs == {c \in (1..MaxW) \X (1..MaxK) : c[1] + c[2] <= MaxW + 2}

\* main() not running
NoLoop == [at |-> "none", on_bus |-> FALSE, part_ok |-> FALSE, ref_time |-> 0,
           queried_at |-> 0, reports |-> 0, printed |-> "nothing"]

\* a fresh monitor, the tick counter at `start`
FreshMonitor(cfgs, trends, modes, start) ==
    /\ \E c \in cfgs : window_size = c[1] /\ smoothing_window = c[2]
    /\ trend \in trends
    /\ atomic \in modes
    /\ filtered_at = <<>>
    /\ pc = "idle"
    /\ local_sample = 0
    /\ local_timestamp = 0
    /\ seen_lens = <<0, 0, 0>>
    /\ samples = <<>>
    /\ timestamps = <<>>
    /\ filtered_samples = <<>>
    /\ now = start
    /\ recent = <<>>
    /\ last_op = "init"
    /\ peaks_ret = <<>>
    /\ hr_ret = NoRate

InitAt(cfgs, trends, modes, start) ==
    FreshMonitor(cfgs, trends, modes, start) /\ loop = NoLoop

InitWith(cfgs, trends, modes) == InitAt(cfgs, trends, modes, 0)

Init == InitWith(Configs, {"any"}, {TRUE})

AddSample ==
    \E sample \in 0..MaxVal, dt \in 0..MaxDt :
        /\ now + dt <= MaxTime
        /\ add_sample(sample, dt)
        /\ UNCHANGED loop

Next == AddSample \/ FindPeaks \/ CalculateHeartRate

Spec == Init /\ [][Next]_vars

(***************************************************************************)
(* The monitor fed a strictly increasing, a strictly decreasing or a       *)
(* constant input, with the default configuration among the others.        *)
(***************************************************************************)
Trends == {"increasing", "decreasing", "constant"}

\* whether `sample` continues an input of shape t whose last value is the
\* last of prev
follows(t, prev, sample) ==
    IF prev = <<>> THEN TRUE
    ELSE CASE t = "increasing" -> sample > prev[Len(prev)]
           [] t = "decreasing" -> sample < prev[Len(prev)]
           [] t = "constant" -> sample = prev[Len(prev)]
           [] OTHER -> TRUE

MonoConfigs == Configs \cup {<<DefaultWindowSize, DefaultSmoothingWindow>>}

InitMono == InitWith(MonoConfigs, Trends, {TRUE})

AddSampleMono ==
    \E sample \in 0..MonoMaxVal, dt \in 0..MaxDt :
        /\ follows(trend, samples, sample)
        /\ now + dt <= MaxTime
        /\ add_sample(sample, dt)
        /\ UNCHANGED loop

NextMono == AddSampleMono \/ FindPeaks \/ CalculateHeartRate

SpecMono == InitMono /\ [][NextMono]_vars

(***************************************************************************)
(* The monitor fed pulses of amplitude 10 on a zero baseline, one sample   *)
(* per millisecond.                                                        *)
(***************************************************************************)
PulseShape == <<0, 0, 0, 10, 0, 0, 0>>
PulseValues == {PulseShape[i] : i \in DOMAIN PulseShape}
PulseConfigs == (3..Len(PulseShape)) \X (1..2)

InitPulse == InitWith(PulseConfigs, {"any"}, {TRUE})

AddSamplePulse ==
    \E sample \in PulseValues :
        /\ now <= Len(PulseShape)
        /\ add_sample(sample, 1)
        /\ UNCHANGED loop

NextPulse == AddSamplePulse \/ FindPeaks \/ CalculateHeartRate

SpecPulse == InitPulse /\ [][NextPulse]_vars

(***************************************************************************)
(* The monitor fed the same pulses at irregular intervals of at least one  *)
(* millisecond.                                                            *)
(***************************************************************************)
AddSamplePaced ==
    \E sample \in PulseValues, dt \in 1..(MaxDt + 1) :
        /\ now + dt <= Len(PulseShape) + 1
        /\ add_sample(sample, dt)
        /\ UNCHANGED loop

NextPaced == AddSamplePaced \/ FindPeaks \/ CalculateHeartRate

SpecPaced == InitPulse /\ [][NextPaced]_vars

(***************************************************************************)
(* The monitor started shortly before the tick counter wraps around.       *)
(***************************************************************************)
InitWrap == InitAt(Configs, {"any"}, {TRUE}, TicksPeriod - WrapLead)

\* two signal levels, enough to raise peaks on either side of the rollover
WrapValues == {0, 1}

AddSampleWrap ==
    \E sample \in WrapValues, dt \in 0..MaxDt :
        /\ \/ ticks_ms(now, dt) >= TicksPeriod - WrapLead
           \/ ticks_ms(now, dt) <= WrapTail
        /\ now >= TicksPeriod - WrapLead \/ now + dt <= WrapTail
        /\ add_sample(sample, dt)
        /\ UNCHANGED loop

NextWrap == AddSampleWrap \/ FindPeaks \/ CalculateHeartRate

SpecWrap == InitWrap /\ [][NextWrap]_vars

(***************************************************************************)
(* main(): the sensor is looked up, the monitor is built for three seconds *)
(* of readings, and the loop feeds it one reading at a time and reports.   *)
(***************************************************************************)
SensorSampleRate == 400      \* line 101
FifoAverage == 8             \* line 103
WindowSeconds == 3           \* line 113
HrComputeInterval == 2       \* line 117, seconds
MsPerSecond == 1000          \* line 133

MainMaxTime == 4002          \* main is followed up to this tick
MainMaxSamples == 5          \* and up to this many readings

\* line 108: int(sensor_sample_rate / sensor_fifo_average)
actual_acquisition_rate == SensorSampleRate \div FifoAverage

\* line 113: int(actual_acquisition_rate * 3)
MainWindowSize == actual_acquisition_rate * WindowSeconds

\* the tick counter's advances between two reads of it: none, the report
\* interval to the millisecond, and one more
MainSteps == {0, MsPerSecond * HrComputeInterval,
              MsPerSecond * HrComputeInterval + 1}

\* line 133 with >= for >
due_at_interval(t, ref) ==
    ticks_diff(t, ref) >= MsPerSecond * HrComputeInterval

\* line 133: ticks_diff(ticks_ms(), ref_time) / 1000 > hr_compute_interval
due(t, ref) == ticks_diff(t, ref) > MsPerSecond * HrComputeInterval

InitMain ==
    /\ FreshMonitor({<<MainWindowSize, DefaultSmoothingWindow>>},
                    {"any"}, {TRUE}, 0)
    /\ loop \in [at : {"start"}, on_bus : BOOLEAN, part_ok : BOOLEAN,
                 ref_time : {0}, queried_at : {0}, reports : {0},
                 printed : {"nothing"}]

\* lines 81-118: main returns when the sensor is not on the bus or is not
\* recognised, and otherwise reads ref_time and enters the loop
MainSetup ==
    /\ loop.at = "start"
    /\ \/ /\ ~loop.on_bus
          /\ loop' = [loop EXCEPT !.at = "returned", !.printed = "not found"]
          /\ UNCHANGED now
       \/ /\ loop.on_bus /\ ~loop.part_ok
          /\ loop' = [loop EXCEPT !.at = "returned",
                                  !.printed = "not recognized"]
          /\ UNCHANGED now
       \/ /\ loop.on_bus /\ loop.part_ok
          /\ \E dt \in MainSteps :
                /\ now + dt <= MainMaxTime
                /\ now' = ticks_ms(now, dt)
                /\ loop' = [loop EXCEPT !.at = "poll", !.ref_time = now']
    /\ UNCHANGED <<config, task, window, recent, filtered_at,
                   last_op, peaks_ret, hr_ret>>

\* lines 122-130: with a reading available, one is popped and handed to add_sample
MainPoll ==
    /\ loop.at = "poll"
    /\ Len(samples) < MainMaxSamples
    /\ \E sample \in 0..MaxVal, dt \in MainSteps :
        /\ now + dt <= MainMaxTime
        /\ add_sample(sample, dt)
    /\ loop' = [loop EXCEPT !.at = "report"]

\* lines 122-123: no reading available
MainIdle ==
    /\ loop.at = "poll"
    /\ loop' = [loop EXCEPT !.at = "report"]
    /\ UNCHANGED <<config, task, window, now, recent, filtered_at,
                   last_op, peaks_ret, hr_ret>>

\* line 133, the interval not yet over: the iteration ends
MainNotDue ==
    /\ loop.at = "report"
    /\ \E dt \in MainSteps :
        /\ now + dt <= MainMaxTime
        /\ ~due(ticks_ms(now, dt), loop.ref_time)
        /\ now' = ticks_ms(now, dt)
    /\ loop' = [loop EXCEPT !.at = "poll"]
    /\ UNCHANGED <<config, task, window, recent, filtered_at,
                   last_op, peaks_ret, hr_ret>>

\* lines 133-141: the interval over, the rate is computed and printed and
\* ref_time read anew; an error of calculate_heart_rate ends main
MainReport ==
    /\ loop.at = "report"
    /\ \E dt \in MainSteps, dt2 \in MainSteps :
        LET t == ticks_ms(now, dt)
            heart_rate == calculate_heart_rate(
                find_peaks(filtered_samples, timestamps, window_size))
        IN  /\ now + dt + dt2 <= MainMaxTime
            /\ due(t, loop.ref_time)
            /\ last_op' = "calculate_heart_rate"
            /\ peaks_ret' = <<>>
            /\ hr_ret' = heart_rate
            /\ IF heart_rate.kind = "ZeroDivisionError"
               THEN /\ now' = t
                    /\ loop' = [loop EXCEPT !.at = "raised",
                                            !.queried_at = t,
                                            !.reports = @ + 1]
               ELSE /\ now' = ticks_ms(t, dt2)
                    /\ loop' = [loop EXCEPT
                                    !.at = "poll",
                                    !.queried_at = t,
                                    !.reports = @ + 1,
                                    !.printed = IF heart_rate.kind = "None"
                                                THEN "Recalculando"
                                                ELSE "BPM",
                                    !.ref_time = now']
    /\ UNCHANGED <<config, task, window, recent, filtered_at>>

NextMain == MainSetup \/ MainPoll \/ MainIdle \/ MainNotDue \/ MainReport

SpecMain == InitMain /\ [][NextMain]_vars

(***************************************************************************)
(* Two tasks on one monitor: a writer that runs add_sample statement by    *)
(* statement and a reader that runs find_peaks.  When `atomic` holds the   *)
(* embedding makes each operation exclude the other.                       *)
(***************************************************************************)
ConcConfigs == {c \in Configs : c[1] <= ConcMaxW}

InitConc == InitWith(ConcConfigs, {"any"}, {TRUE, FALSE})

\* a statement of the writer leaves the reader's last result behind
Unread == peaks_ret' = <<>> /\ seen_lens' = <<0, 0, 0>>

\* lines 18-19: timestamp = ticks_ms(); self.samples.append(sample)
WriterCall ==
    \E sample \in 0..MaxVal, dt \in 0..MaxDt :
        /\ pc = "idle"
        /\ now + dt <= MaxTime
        /\ now' = ticks_ms(now, dt)
        /\ local_timestamp' = ticks_ms(now, dt)
        /\ local_sample' = sample
        /\ samples' = Append(samples, sample)
        /\ recent' = LastN(Append(recent, sample), smoothing_window)
        /\ pc' = "l20"
        /\ last_op' = "add_sample"
        /\ Unread
        /\ UNCHANGED <<loop, config, timestamps, filtered_samples, filtered_at, hr_ret>>

\* line 20: self.timestamps.append(timestamp)
WriterL20 ==
    /\ pc = "l20"
    /\ timestamps' = Append(timestamps, local_timestamp)
    /\ pc' = "l23"
    /\ last_op' = "add_sample"
    /\ Unread
    /\ UNCHANGED <<loop, config, samples, filtered_samples, filtered_at, now, recent,
                   hr_ret, local_sample, local_timestamp>>

\* lines 23-27: self.filtered_samples.append(...)
WriterL23 ==
    /\ pc = "l23"
    /\ filtered_samples' =
           Append(filtered_samples,
                  smoothed_sample(samples, smoothing_window, local_sample))
    /\ filtered_at' = Append(filtered_at, local_timestamp)
    /\ pc' = "l30"
    /\ last_op' = "add_sample"
    /\ Unread
    /\ UNCHANGED <<loop, config, samples, timestamps, now, recent,
                   hr_ret, local_sample, local_timestamp>>

\* lines 30-31: if len(self.samples) > self.window_size: self.samples.pop(0)
WriterL30 ==
    /\ pc = "l30"
    /\ IF overflows(samples, window_size)
       THEN samples' = pop0(samples) /\ pc' = "l32"
       ELSE samples' = samples /\ pc' = "idle"
    /\ last_op' = "add_sample"
    /\ Unread
    /\ UNCHANGED <<loop, config, timestamps, filtered_samples, filtered_at, now, recent,
                   hr_ret, local_sample, local_timestamp>>

\* line 32: self.timestamps.pop(0)
WriterL32 ==
    /\ pc = "l32"
    /\ timestamps' = pop0(timestamps)
    /\ pc' = "l33"
    /\ last_op' = "add_sample"
    /\ Unread
    /\ UNCHANGED <<loop, config, samples, filtered_samples, filtered_at, now, recent,
                   hr_ret, local_sample, local_timestamp>>

\* an add_sample that returns without evicting the filtered value
WriterL33Skip ==
    /\ pc = "l33"
    /\ pc' = "idle"
    /\ last_op' = "add_sample"
    /\ Unread
    /\ UNCHANGED <<loop, config, window, filtered_at, now, recent,
                   hr_ret, local_sample, local_timestamp>>

\* line 33: self.filtered_samples.pop(0)
WriterL33 ==
    /\ pc = "l33"
    /\ filtered_samples' = pop0(filtered_samples)
    /\ filtered_at' = pop0(filtered_at)
    /\ pc' = "idle"
    /\ last_op' = "add_sample"
    /\ Unread
    /\ UNCHANGED <<loop, config, samples, timestamps, now, recent,
                   hr_ret, local_sample, local_timestamp>>

\* find_peaks run by the second task, between two statements of the writer
\* (only between two add_sample calls when the operations are atomic)
ReaderFindPeaks ==
    /\ atomic => pc = "idle"
    /\ peaks_ret' = find_peaks(filtered_samples, timestamps, window_size)
    /\ seen_lens' = <<Len(samples), Len(timestamps), Len(filtered_samples)>>
    /\ last_op' = "find_peaks"
    /\ UNCHANGED <<loop, config, window, filtered_at, now, recent, hr_ret,
                   pc, local_sample, local_timestamp>>

NextConc ==
    \/ WriterCall
    \/ WriterL20
    \/ WriterL23
    \/ WriterL30
    \/ WriterL32
    \/ WriterL33
    \/ ReaderFindPeaks

SpecConc == InitConc /\ [][NextConc]_vars

(***************************************************************************)
(* Properties of the monitor.                                              *)
(***************************************************************************)
\* the peaks find_peaks would return in the current state
PeaksNow == find_peaks(filtered_samples, timestamps, window_size)

\* every call so far is still among the last smoothing_window raw values
InWarmUp == Len(recent) < smoothing_window

\* the timestamps held are non-decreasing
NonDecreasing(ts) == \A i \in 1..(Len(ts) - 1) : ts[i] <= ts[i + 1]

\* C1: after each add_sample returns, samples, timestamps and
\* filtered_samples have the same length, and that length is at most
\* window_size.
C1_BoundedWindow ==
    pc = "idle" =>
        /\ Len(samples) = Len(timestamps)
        /\ Len(timestamps) = Len(filtered_samples)
        /\ Len(samples) <= window_size

\* an add_sample has returned after evicting: more calls than window_size
\* were made and the window is full
C1_Witness ==
    /\ last_op = "add_sample"
    /\ Len(recent) > window_size
    /\ Len(samples) = window_size

\* C2: from the smoothing_window-th call on, the filtered value an
\* add_sample appends is the mean of the smoothing_window raw values
\* appended last, retained in the window or not (as numerators: their sum).
C2_TrailingMean ==
    (last_op = "add_sample" /\ ~InWarmUp) =>
        filtered_samples[Len(filtered_samples)] = sum(recent)

\* C3: on a strictly increasing, a strictly decreasing or a constant input
\* find_peaks returns an empty list after every prefix.
C3_NoPeaksOnMonotonic ==
    (last_op = "find_peaks" /\ trend \in Trends) => peaks_ret = <<>>

\* C4: with non-decreasing timestamps no call ends in an error, and
\* calculate_heart_rate returns None or a number.
C4_NoError ==
    (last_op = "calculate_heart_rate" /\ NonDecreasing(timestamps)) =>
        hr_ret.kind \in {"None", "num"}

\* the interior indices that are strict local maxima above the threshold
\* min + 0.5 * (max - min) of the whole filtered sequence (doubled)
PeakIndices(f) ==
    {i \in 2..(Len(f) - 1) :
        /\ \E lo \in 1..Len(f), hi \in 1..Len(f) :
              /\ \A j \in 1..Len(f) : f[lo] <= f[j] /\ f[j] <= f[hi]
              /\ 2 * f[i] > f[lo] + f[hi]
        /\ f[i - 1] < f[i]
        /\ f[i] > f[i + 1]}

\* p lists exactly the (timestamp, value) pairs of the indices of I, in
\* increasing index order
ListsExactly(p, I, ts, f) ==
    /\ Len(p) = Cardinality(I)
    /\ \E idx \in [1..Len(p) -> I] :
          /\ \A a \in 1..Len(p), b \in 1..Len(p) : a < b => idx[a] < idx[b]
          /\ \A a \in 1..Len(p) : p[a] = <<ts[idx[a]], f[idx[a]]>>

C6_InsufficientData ==
    last_op = "calculate_heart_rate" =>
        /\ Len(PeaksNow) < 2 => hr_ret.kind = "None"
        /\ hr_ret.kind = "num" => Len(PeaksNow) >= 2

\* calculate_heart_rate has returned None on a window with exactly one peak
C6_Witness ==
    /\ last_op = "calculate_heart_rate"
    /\ Len(filtered_samples) >= 3
    /\ Len(PeaksNow) = 1
    /\ hr_ret.kind = "None"

\* the sum of the adjacent differences t_i - t_(i-1) of the peaks' timestamps
RECURSIVE GapSum(_)
GapSum(p) ==
    IF Len(p) < 2 THEN 0 ELSE (p[2][1] - p[1][1]) + GapSum(Tail(p))

\* C7: with n >= 2 peaks calculate_heart_rate returns a number, and
\* result * sum(intervals) = 60000 * (n - 1).
C7_RateFormula ==
    (last_op = "calculate_heart_rate" /\ Len(PeaksNow) >= 2) =>
        /\ hr_ret.kind = "num"
        /\ hr_ret.num * GapSum(PeaksNow) = 60000 * (Len(PeaksNow) - 1) * hr_ret.den

\* C8: find_peaks and calculate_heart_rate leave the three lists as they
\* were, and a repeated call returns what the call before it returned.
C8_IdempotentReads ==
    [][ /\ last_op' \in {"find_peaks", "calculate_heart_rate"} => window' = window
        /\ (last_op = "find_peaks" /\ last_op' = "find_peaks") =>
               peaks_ret' = peaks_ret
        /\ (last_op = "calculate_heart_rate" /\ last_op' = "calculate_heart_rate") =>
               hr_ret' = hr_ret ]_vars

\* find_peaks has returned a peak
C8_Witness ==
    /\ last_op = "find_peaks"
    /\ peaks_ret # <<>>

\* C9: during the first smoothing_window - 1 calls the filtered value an
\* add_sample appends is the raw value of that call (as a numerator:
\* sample * smoothing_window).
C9_WarmUp ==
    (last_op = "add_sample" /\ InWarmUp) =>
        filtered_samples[Len(filtered_samples)]
            = samples[Len(samples)] * smoothing_window

\* the (smoothing_window - 1)-th call has returned, with raw values whose
\* mean is not the last one
C9_Witness ==
    /\ last_op = "add_sample"
    /\ smoothing_window >= 2
    /\ Len(recent) = smoothing_window - 1
    /\ sum(recent) # samples[Len(samples)] * smoothing_window

\* C10: when each add_sample and each find_peaks runs atomically, no
\* find_peaks reads lists of differing lengths (interleaved with the
\* statements of add_sample it can: C10_Witness).
C10_AtomicReadsAgree ==
    (atomic /\ last_op = "find_peaks") =>
        (seen_lens[1] = seen_lens[2] /\ seen_lens[2] = seen_lens[3])

\* a find_peaks interleaved with an add_sample has read lists of differing
\* lengths and has paired a peak with the timestamp of another sample
C10_Witness ==
    /\ ~atomic
    /\ last_op = "find_peaks"
    /\ ~(seen_lens[1] = seen_lens[2] /\ seen_lens[2] = seen_lens[3])
    /\ seen_lens = <<Len(samples), Len(timestamps), Len(filtered_samples)>>
    /\ \E i \in 2..(Len(filtered_samples) - 1) :
          /\ is_peak(filtered_samples, window_size, i)
          /\ \E j \in DOMAIN peaks_ret :
                peaks_ret[j] = <<timestamps[i], filtered_samples[i]>>
          /\ timestamps[i] # filtered_at[i]

\* all the filtered values held are equal (min == max)
Flat(f) == \A i \in DOMAIN f, j \in DOMAIN f : f[i] = f[j]

\* C11: when all filtered values are equal, find_peaks returns an empty list
\* and calculate_heart_rate returns None.
C11_FlatSignal ==
    Flat(filtered_samples) =>
        /\ last_op = "find_peaks" => peaks_ret = <<>>
        /\ last_op = "calculate_heart_rate" => hr_ret.kind = "None"

\* calculate_heart_rate has returned on a flat window of 3 or more values
C11_Witness ==
    /\ last_op = "calculate_heart_rate"
    /\ Len(filtered_samples) >= 3
    /\ Flat(filtered_samples)
    /\ hr_ret.kind = "None"

\* the smaller of two numbers
Min2(a, b) == IF a <= b THEN a ELSE b

\* the list an add_sample leaves when it appends x to l: without the oldest
\* entry if the window was full
Slid(l, x) ==
    Append(IF Len(samples) = window_size THEN Tail(l) ELSE l, x)

\* C12: the window holds the last min(n, window_size) appended entries in
\* append order, the entries at one index coming from the same add_sample
\* call; a call on a full window evicts exactly the oldest entry of each
\* list and no call modifies an entry that stays.
C12_SlidingWindow ==
    /\ [](/\ filtered_at = timestamps
          /\ LET m == Min2(Len(samples), Len(recent))
             IN  LastN(samples, m) = LastN(recent, m) \/ m = 0)
    /\ [][ last_op' = "add_sample" =>
             /\ Len(samples') = Min2(Len(samples) + 1, window_size)
             /\ samples' = Slid(samples, samples'[Len(samples')])
             /\ timestamps' = Slid(timestamps, now')
             /\ filtered_samples' =
                    Slid(filtered_samples, filtered_samples'[Len(filtered_samples')])
             /\ recent'[Len(recent')] = samples'[Len(samples')] ]_vars

\* an add_sample has returned on a window of 2 or more entries that was
\* full before the call, holding unequal raw values
C12_Witness ==
    /\ last_op = "add_sample"
    /\ window_size >= 2
    /\ Len(samples) = window_size
    /\ Len(recent) > window_size
    /\ samples[1] # samples[Len(samples)]

\* C14: after any add_sample calls, the slice filtered_samples[-window_size:]
\* that find_peaks takes for its threshold is the entire filtered list.
C14_SliceIsWhole ==
    pc = "idle" => LastN(filtered_samples, window_size) = filtered_samples

\* find_peaks has returned on a full window of 3 or more values
C14_Witness ==
    /\ last_op = "find_peaks"
    /\ Len(filtered_samples) >= 3
    /\ Len(filtered_samples) = window_size

\* C16: the peaks find_peaks returns come from strictly increasing indices
\* at least 2 apart, never the first nor the last index, so a window of
\* length L yields at most floor((L - 1) / 2) peaks.
C16_PeaksSpaced ==
    last_op = "find_peaks" =>
        LET L == Len(filtered_samples)
            n == Len(peaks_ret)
        IN  /\ 2 * n <= Max2(L - 1, 0)
            /\ \E idx \in [1..n -> 2..(L - 1)] :
                  /\ \A a \in 1..(n - 1) : idx[a + 1] >= idx[a] + 2
                  /\ \A a \in 1..n :
                        peaks_ret[a] = <<timestamps[idx[a]], filtered_samples[idx[a]]>>

\* find_peaks has returned 3 peaks on a window of 7 values
C16_Witness ==
    /\ last_op = "find_peaks"
    /\ Len(filtered_samples) = 7
    /\ Len(peaks_ret) = 3

\* C17: with smoothing_window > window_size + 1 every filtered value is the
\* raw value of the same call, however many calls are made.
C17_NeverSmooths ==
    (pc = "idle" /\ smoothing_window > window_size + 1) =>
        \A i \in DOMAIN filtered_samples :
            filtered_samples[i] = samples[i] * smoothing_window

\* smoothing_window or more calls were made with smoothing_window >
\* window_size + 1, and the mean of the last ones is not the last raw value
C17_Witness ==
    /\ last_op = "add_sample"
    /\ smoothing_window > window_size + 1
    /\ Len(recent) = smoothing_window
    /\ sum(recent) # samples[Len(samples)] * smoothing_window

\* the timestamps of ts on a counter that does not wrap: each step forward
\* is the distance to the next tick value modulo the period
RECURSIVE Unwrap(_)
Unwrap(ts) ==
    IF Len(ts) <= 1 THEN ts
    ELSE LET u == Unwrap(SubSeq(ts, 1, Len(ts) - 1))
         IN  Append(u, u[Len(u)] + ((ts[Len(ts)] - ts[Len(ts) - 1]) % TicksPeriod))

\* the outcome of the rate conversion on peaks p whose timestamps do not
\* wrap: None, 60000 over the mean of the differences, or the division by
\* zero
RateOf(p) ==
    IF Len(p) < 2 THEN [kind |-> "None", num |-> 0, den |-> 1]
    ELSE IF GapSum(p) = 0 THEN [kind |-> "ZeroDivisionError", num |-> 0, den |-> 1]
    ELSE [kind |-> "num", num |-> 60000 * (Len(p) - 1), den |-> GapSum(p)]

\* the window spans less than half the period of the counter
ShortSpan(ts) ==
    ts = <<>> \/ 2 * (Unwrap(ts)[Len(ts)] - ts[1]) < TicksPeriod

\* C13: on a window that spans less than half the period of the tick
\* counter, calculate_heart_rate returns what the same samples give with
\* timestamps that do not wrap, also when the window straddles a rollover.
C13_WrapSafe ==
    (last_op = "calculate_heart_rate" /\ ShortSpan(timestamps)) =>
        hr_ret = RateOf(find_peaks(filtered_samples, Unwrap(timestamps), window_size))

\* calculate_heart_rate has returned a number from peaks on both sides of
\* a rollover
C13_Witness ==
    /\ last_op = "calculate_heart_rate"
    /\ hr_ret.kind = "num"
    /\ Len(PeaksNow) >= 2
    /\ PeaksNow[1][1] > PeaksNow[Len(PeaksNow)][1]

\* the timestamps held are strictly increasing
StrictlyIncreasing(ts) == \A i \in 1..(Len(ts) - 1) : ts[i] < ts[i + 1]

\* C15: with strictly increasing timestamps every result of
\* calculate_heart_rate other than None is a finite, strictly positive
\* rate: the intervals between adjacent peaks are strictly positive and
\* sum to the last peak's timestamp minus the first's.
C15_PositiveRate ==
    (last_op = "calculate_heart_rate" /\ StrictlyIncreasing(timestamps)) =>
        /\ hr_ret.kind \in {"None", "num"}
        /\ hr_ret.kind = "num" =>
              /\ hr_ret.num > 0
              /\ hr_ret.den > 0
              /\ \A a \in 1..(Len(PeaksNow) - 1) :
                    PeaksNow[a + 1][1] - PeaksNow[a][1] > 0
              /\ hr_ret.den = PeaksNow[Len(PeaksNow)][1] - PeaksNow[1][1]

\* calculate_heart_rate has returned a number from 3 peaks at unequal
\* intervals
C15_Witness ==
    /\ last_op = "calculate_heart_rate"
    /\ StrictlyIncreasing(timestamps)
    /\ hr_ret.kind = "num"
    /\ Len(PeaksNow) = 3
    /\ PeaksNow[2][1] - PeaksNow[1][1] # PeaksNow[3][1] - PeaksNow[2][1]


\* a step of main in which calculate_heart_rate is queried
MainQueries == loop'.reports = loop.reports + 1

\* a step of main after which a rate or a Recalculando line has newly appeared
MainAnswers ==
    \/ last_op' = "calculate_heart_rate" /\ last_op # "calculate_heart_rate"
    \/ hr_ret' # hr_ret /\ hr_ret'.kind # "unset"
    \/ loop'.printed \in {"BPM", "Recalculando"} /\ loop'.printed # loop.printed

\* C18: main is in its loop only with the sensor on the bus and recognised;
\* an iteration appends at most one sample (its first half one or none, its
\* second half none); the rate is queried and a line printed only when more
\* than 2000 ms have passed since ref_time; ref_time is then read anew, so a
\* query comes more than 2000 ms after the one before it.
C18_MainLoop ==
    /\ [](loop.at \in {"poll", "report", "raised"}
            => loop.on_bus /\ loop.part_ok)
    /\ [][/\ Len(samples') <= Len(samples) + 1
          /\ (loop.at = "report" => samples' = samples)
          /\ (MainAnswers => MainQueries)
          /\ (MainQueries =>
                /\ loop.at = "report"
                /\ loop'.queried_at - loop.ref_time
                        > MsPerSecond * HrComputeInterval
                /\ (loop'.at = "poll" =>
                        /\ loop'.ref_time = now'
                        /\ loop'.ref_time >= loop'.queried_at)
                /\ (loop.reports > 0 =>
                        loop'.queried_at - loop.queried_at
                            > MsPerSecond * HrComputeInterval))]_vars

\* a second report has been made, the last one with a rate, five samples in
C18_Witness ==
    /\ loop.reports = 2
    /\ loop.printed = "BPM"
    /\ loop.at = "poll"
    /\ Len(samples) = MainMaxSamples
    /\ loop.queried_at - loop.ref_time <= 0

====
